---- MODULE Spec2Model ----
(***************************************************************************)
(* Model of src/logic/sender.py: SenderCongratulationsMessage.             *)
(*                                                                         *)
(* Every asyncio task is one entry of `tasks`.  A task runs atomically     *)
(* from one await to the next (cooperative scheduling), so each action is  *)
(* the code between two suspension points.  The code's functions are       *)
(* operators from a world record (the registries, the queues, the tasks)   *)
(* to the world they leave behind; the running task's pc tells how the     *)
(* call ended: "run" (returned), "raised" (an exception is propagating),   *)
(* or the await it is suspended at.                                        *)
(***************************************************************************)
EXTENDS Naturals, Sequences, FiniteSets, TLC

VARIABLES tasks, _callback_task, chat_to_job, chat_to_setting,
          POLLING_QUEUE, GENERATE_QUEUE, produced

vars == <<tasks, _callback_task, chat_to_job, chat_to_setting,
          POLLING_QUEUE, GENERATE_QUEUE, produced>>

\* ------------------------------------------------------------------ bounds
\* Tasks the event loop ever holds (the owner's task included).
MaxTasks == 4
\* Commands the front end ever puts on the two queues together.
MaxCommands == 2
\* Wakes of one runner that the model follows.
MaxWakes == 6

\* ------------------------------------------------------------ value domains
ChatID == {1, 2}

\* Python's None / an absent value is the empty tuple, a present value v is <<v>>.
None == <<>>
Some(v) == <<v>>

CommandsForPolling == {"START", "STOP", "SETTINGS"}
\* PICTURE and TEXT are the two kinds _generate tests for; "OTHER" is any other kind.
CommandsForGenerate == {"PICTURE", "TEXT", "OTHER"}

\* Raw names payloads of a SETTINGS command: a JSON array, malformed JSON, and
\* valid JSON that is not an array.
NamesPayloads == {"[\"C\"]", "not-json", "{}"}
\* Raw delay payloads: absent/empty, a valid expression, an unparseable one.
DelayPayloads == {"", "2h", "soon"}

STANDARD_REPLAY_DELAY == "15m"
FallbackDelay == 5
\* The placeholder name of _send (a Cyrillic word, "nameless").
DefaultName == "Bezymyannaya"

\* json.loads on the payloads above: the parsed value, or the JSONDecodeError.
json_loads(s) ==
    CASE s = "[\"A\",\"B\"]" -> [type |-> "list", value |-> <<"A", "B">>]
      [] s = "[\"C\"]"       -> [type |-> "list", value |-> <<"C">>]
      [] s = "{}"            -> [type |-> "dict", value |-> <<>>]
      [] OTHER               -> [type |-> "JSONDecodeError", value |-> <<>>]

\* pytimeparse.parse: seconds, or None for an expression it cannot read.
time_parse(s) ==
    CASE s = "15m" -> Some(900)
      [] s = "2h"  -> Some(7200)
      [] OTHER     -> None

PollingInfo ==
    [command : {"START", "STOP"}, chat_id : ChatID, names : {""}, delay : {""}]
    \cup [command : {"SETTINGS"}, chat_id : ChatID,
          names : NamesPayloads, delay : DelayPayloads]

GenerateInfo ==
    [command : CommandsForGenerate, chat_id : ChatID, first_name : {None}]

\* dataclass SenderJob
SenderJob(repeat_delay, names) == [repeat_delay |-> repeat_delay, names |-> names]

\* ------------------------------------------------------------------- tasks
\* One asyncio task: its coroutine (kind), where it is suspended (pc), a pending
\* cancellation request, and the coroutine's local variables.
\*   kind "main"    the owner that calls start() and stop()
\*   kind "checker" callback_checker under run_forever
\*   kind "sender"  sender(chat_id)
\* Ghost fields, written and never read by the code's operators: `job_info` and
\* `get_info` (the commands this cycle took), `raised` (the cycle's body ended in
\* a logged exception), `sends` (the bot calls that completed in this cycle or
\* wake), `wakes` (per wake of a runner, the name it tried to dispatch or "-"),
\* `failed` (some dispatch of this runner has raised).
Task(kind, chat_id) ==
    [kind |-> kind, chat_id |-> chat_id, pc |-> "new", must_cancel |-> FALSE,
     target |-> 0,
     local_names_iter |-> None, replay_delay |-> Some(FallbackDelay),
     reraise |-> FALSE,
     to |-> 0, name |-> "", send_only_picture |-> FALSE, send_only_text |-> FALSE,
     job_info |-> None, get_info |-> None, raised |-> FALSE,
     sends |-> <<>>, wakes |-> <<>>, failed |-> FALSE]

World ==
    [tasks |-> tasks, chat_to_job |-> chat_to_job, chat_to_setting |-> chat_to_setting,
     POLLING_QUEUE |-> POLLING_QUEUE, GENERATE_QUEUE |-> GENERATE_QUEUE]

Install(w) ==
    /\ tasks' = w.tasks
    /\ chat_to_job' = w.chat_to_job
    /\ chat_to_setting' = w.chat_to_setting
    /\ POLLING_QUEUE' = w.POLLING_QUEUE
    /\ GENERATE_QUEUE' = w.GENERATE_QUEUE

\* dict helpers: d[key] = value, del d[key]
DictSet(d, key, value) ==
    [x \in DOMAIN d \cup {key} |-> IF x = key THEN value ELSE d[x]]
\* del d[key] that empties the dict.
DictClear(d, key) == <<>>
DictDel(d, key) == [x \in DOMAIN d \ {key} |-> d[x]]

Live(t) == t.pc # "done"

\* src.tasks.run_background_task: schedule the coroutine as a new task, return it.
run_background_task(w, kind, chat_id) ==
    [w EXCEPT !.tasks = Append(@, Task(kind, chat_id))]

\* src.tasks.cancel_and_stop_task, awaited by task k: request the cancellation of
\* `task` and wait until it has fully unwound.
cancel_and_stop_task(w, k, task) ==
    [w EXCEPT !.tasks[task].must_cancel = Live(w.tasks[task]),
              !.tasks[k].pc = "join",
              !.tasks[k].target = task]

\* ------------------------------------------------------------------- _send
\* _send up to its first await (parse).
_send(w, k, _chat_id, name, send_only_picture, send_only_text) ==
    [w EXCEPT !.tasks[k].to = _chat_id,
              !.tasks[k].name = IF name = None THEN DefaultName ELSE name[1],
              !.tasks[k].send_only_picture = send_only_picture,
              !.tasks[k].send_only_text = send_only_text,
              !.tasks[k].pc = "parse"]

\* _send returns: its frame is dropped.
send_return(w, k, pc) ==
    [w EXCEPT !.tasks[k].to = 0, !.tasks[k].name = "",
              !.tasks[k].send_only_picture = FALSE,
              !.tasks[k].send_only_text = FALSE,
              !.tasks[k].pc = pc]

\* _send after `await parse(...)` returned.
send_after_parse(w, k) ==
    LET t == w.tasks[k] IN
    IF ~t.send_only_text THEN [w EXCEPT !.tasks[k].pc = "send_photo"]
    ELSE IF ~t.send_only_picture THEN [w EXCEPT !.tasks[k].pc = "send_message"]
    ELSE send_return(w, k, "run")

\* _send after `await bot.send_photo(...)` returned.
send_after_photo(w, k) ==
    LET t == w.tasks[k]
        w1 == [w EXCEPT !.tasks[k].sends =
                   Append(@, [api |-> "send_photo", chat_id |-> t.to, via |-> "_send"])]
    IN  IF ~t.send_only_picture THEN [w1 EXCEPT !.tasks[k].pc = "send_message"]
        ELSE send_return(w1, k, "run")

\* _send after `await bot.send_message(...)` returned.
send_after_message(w, k) ==
    LET t == w.tasks[k]
        w1 == [w EXCEPT !.tasks[k].sends =
                   Append(@, [api |-> "send_message", chat_id |-> t.to, via |-> "_send"])]
    IN  send_return(w1, k, "run")

\* -------------------------------------------------------------- the registry
\* _start_task without its membership test.
_start_task_unguarded(w, k, job_info) ==
    LET chat_id == job_info.chat_id
        w1 == run_background_task(w, "sender", chat_id)
        task == Len(w1.tasks)
    IN  [w1 EXCEPT !.chat_to_job = DictSet(@, chat_id, task),
                   !.tasks[k].pc = "raised"]

_start_task(w, k, job_info) ==
    LET chat_id == job_info.chat_id IN
    IF chat_id \in DOMAIN w.chat_to_job \/ chat_id \in DOMAIN w.chat_to_setting
    THEN w
    ELSE LET w1 == run_background_task(w, "sender", chat_id)
             task == Len(w1.tasks)
         IN  \* line 86 evaluates the name `repeat_delay`, which is bound neither in
             \* the function nor in the module: NameError, after the handle is stored
             \* and before any SenderJob is built.
             [w1 EXCEPT !.chat_to_job = DictSet(@, chat_id, task),
                        !.tasks[k].pc = "raised"]

_stop_task(w, k, chat_id) ==
    IF chat_id \notin DOMAIN w.chat_to_job \/ chat_id \notin DOMAIN w.chat_to_setting
    THEN w
    ELSE LET task == w.chat_to_job[chat_id]
             w1 == [w EXCEPT !.chat_to_job = DictDel(@, chat_id),
                             !.chat_to_setting = DictDel(@, chat_id)]
         IN  cancel_and_stop_task(w1, k, task)

\* names_apply without its membership test: the entry is written whether or not
\* the tenant has one.
names_apply_unguarded(w, k, chat_id, names) ==
    [w EXCEPT !.chat_to_setting =
         DictSet(@, chat_id,
                 SenderJob(IF chat_id \in DOMAIN @ THEN @[chat_id].repeat_delay ELSE None,
                           names))]

\* _names after the payload parsed as a list.
names_apply(w, k, chat_id, names) ==
    IF chat_id \notin DOMAIN w.chat_to_job \/ chat_id \notin DOMAIN w.chat_to_setting
    THEN w
    ELSE [w EXCEPT !.chat_to_setting[chat_id].names = names]

\* _names without the isinstance test: only a JSONDecodeError is rejected.
_names_any_json(w, k, chat_id, names) ==
    LET parsed == json_loads(names) IN
    IF parsed.type = "JSONDecodeError"
    THEN [w EXCEPT !.tasks[k].to = chat_id, !.tasks[k].pc = "notify"]
    ELSE names_apply(w, k, chat_id, parsed.value)

\* _names up to its return or its await of bot.send_message.
_names(w, k, chat_id, names) ==
    LET parsed == json_loads(names) IN
    IF parsed.type # "list"
    THEN [w EXCEPT !.tasks[k].to = chat_id, !.tasks[k].pc = "notify"]
    ELSE names_apply(w, k, chat_id, parsed.value)

_repeat_delay(w, k, chat_id, repeat_delay) ==
    IF chat_id \notin DOMAIN w.chat_to_job \/ chat_id \notin DOMAIN w.chat_to_setting
    THEN w
    ELSE LET raw == IF repeat_delay = "" THEN STANDARD_REPLAY_DELAY ELSE repeat_delay
         IN  [w EXCEPT !.chat_to_setting[chat_id].repeat_delay = time_parse(raw)]

\* ------------------------------------------------------------ the processors
\* _generate with the two flags exchanged.
_generate_swapped(w, k) ==
    IF w.GENERATE_QUEUE = <<>>
    THEN w
    ELSE LET get_info == Head(w.GENERATE_QUEUE)
             w1 == [w EXCEPT !.GENERATE_QUEUE = Tail(@),
                             !.tasks[k].get_info = Some(get_info)]
             command == get_info.command
         IN  _send(w1, k, get_info.chat_id, get_info.first_name,
                   command = "TEXT", command = "PICTURE")

\* _generate reading the head of the queue without removing it.
_generate_keeps(w, k) ==
    IF w.GENERATE_QUEUE = <<>>
    THEN w
    ELSE LET get_info == Head(w.GENERATE_QUEUE)
             w1 == [w EXCEPT !.tasks[k].get_info = Some(get_info)]
             command == get_info.command
         IN  _send(w1, k, get_info.chat_id, get_info.first_name,
                   command = "PICTURE", command = "TEXT")

_generate(w, k) ==
    IF w.GENERATE_QUEUE = <<>>
    THEN w
    ELSE LET get_info == Head(w.GENERATE_QUEUE)
             w1 == [w EXCEPT !.GENERATE_QUEUE = Tail(@),
                             !.tasks[k].get_info = Some(get_info)]
             command == get_info.command
         IN  _send(w1, k, get_info.chat_id, get_info.first_name,
                   command = "PICTURE", command = "TEXT")

_polling(w, k) ==
    IF w.POLLING_QUEUE = <<>>
    THEN w
    ELSE LET job_info == Head(w.POLLING_QUEUE)
             w1 == [w EXCEPT !.POLLING_QUEUE = Tail(@),
                             !.tasks[k].job_info = Some(job_info)]
             chat_id == job_info.chat_id
             command == job_info.command
         IN  IF command = "START" THEN _start_task(w1, k, job_info)
             ELSE IF command = "STOP" THEN _stop_task(w1, k, chat_id)
             ELSE IF command = "SETTINGS"
             THEN LET w2 == _names(w1, k, chat_id, job_info.names)
                  IN  IF w2.tasks[k].pc = "run"
                      THEN _repeat_delay(w2, k, chat_id, job_info.delay)
                      ELSE w2
             ELSE w1

\* The rest of _polling once the await inside _stop_task or _names has returned.
polling_resume(w, k) ==
    LET job_info == w.tasks[k].job_info[1]
        w1 == [w EXCEPT !.tasks[k].pc = "run", !.tasks[k].target = 0,
                        !.tasks[k].to = 0]
    IN  IF job_info.command = "SETTINGS"
        THEN _repeat_delay(w1, k, job_info.chat_id, job_info.delay)
        ELSE w1

\* run_forever (src.tasks): once the body has returned or raised, log a raised
\* exception and sleep REPEAT_DELAY.
run_forever(w, k) ==
    IF w.tasks[k].pc = "run" THEN [w EXCEPT !.tasks[k].pc = "sleep"]
    ELSE IF w.tasks[k].pc = "raised"
    THEN send_return([w EXCEPT !.tasks[k].raised = TRUE, !.tasks[k].target = 0],
                     k, "sleep")
    ELSE w

\* callback_checker running _generate whether or not _polling raised.
checker_generate_always(w, k) ==
    IF w.tasks[k].pc \in {"run", "raised"} THEN _generate(w, k) ELSE w

\* callback_checker from `await self._generate()` on.
checker_generate(w, k) ==
    IF w.tasks[k].pc = "run" THEN _generate(w, k) ELSE w

\* One cycle of callback_checker, to its first suspension.
callback_checker(w, k) ==
    LET w0 == [w EXCEPT !.tasks[k].pc = "run", !.tasks[k].job_info = None,
                        !.tasks[k].get_info = None, !.tasks[k].raised = FALSE,
                        !.tasks[k].sends = <<>>]
    IN  run_forever(checker_generate(_polling(w0, k), k), k)

\* ---------------------------------------------------------------- the runner
\* sender's `finally: await asyncio.sleep(replay_delay)`; asyncio.sleep(None)
\* raises TypeError out of the finally block, which ends the task.
sender_finally(w, k) ==
    IF w.tasks[k].replay_delay = None
    THEN [w EXCEPT !.tasks[k].pc = "done", !.tasks[k].raised = TRUE]
    ELSE [w EXCEPT !.tasks[k].pc = "sleep"]

\* An iterator that starts at the second item.
iter_from_second(names) == [list |-> names, index |-> 1]

\* iter(names): a list iterator, the list it walks and the index of its next item.
iter(names) == [list |-> names, index |-> 0]

\* sender walking the tenant's current names with its cursor, instead of the
\* list its iterator was built from.
sender_current_names(w, k) ==
    LET chat_id == w.tasks[k].chat_id
        w0 == [w EXCEPT !.tasks[k].replay_delay = Some(FallbackDelay),
                        !.tasks[k].sends = <<>>, !.tasks[k].raised = FALSE]
    IN  IF chat_id \notin DOMAIN w.chat_to_setting
        THEN sender_finally([w0 EXCEPT !.tasks[k].reraise = TRUE,
                                       !.tasks[k].wakes = Append(@, "-")], k)
        ELSE LET replay_delay == w.chat_to_setting[chat_id].repeat_delay
                 names == w.chat_to_setting[chat_id].names
                 w1 == [w0 EXCEPT !.tasks[k].replay_delay = replay_delay]
                 it == w.tasks[k].local_names_iter
             IN  IF it = None
                 THEN sender_finally(
                          [w1 EXCEPT !.tasks[k].local_names_iter =
                                         Some(iter(names)),
                                     !.tasks[k].wakes = Append(@, "-")], k)
                 ELSE IF it[1].index < Len(names)
                 THEN LET name == names[it[1].index + 1]
                          w2 == [w1 EXCEPT !.tasks[k].local_names_iter =
                                               Some([list |-> names,
                                                     index |-> it[1].index + 1]),
                                           !.tasks[k].wakes = Append(@, name)]
                      IN  _send(w2, k, chat_id, Some(name), FALSE, FALSE)
                 ELSE sender_finally(
                          [w1 EXCEPT !.tasks[k].local_names_iter = None,
                                     !.tasks[k].wakes = Append(@, "-")], k)

\* One iteration of sender's `while True`, to its first suspension.
sender(w, k) ==
    LET chat_id == w.tasks[k].chat_id
        w0 == [w EXCEPT !.tasks[k].replay_delay = Some(FallbackDelay),
                        !.tasks[k].sends = <<>>, !.tasks[k].raised = FALSE]
    IN  IF chat_id \notin DOMAIN w.chat_to_setting
        THEN \* raise CancelledError; except CancelledError: raise; finally: sleep
             sender_finally([w0 EXCEPT !.tasks[k].reraise = TRUE,
                                       !.tasks[k].wakes = Append(@, "-")], k)
        ELSE LET replay_delay == w.chat_to_setting[chat_id].repeat_delay
                 names == w.chat_to_setting[chat_id].names
                 w1 == [w0 EXCEPT !.tasks[k].replay_delay = replay_delay]
                 it == w.tasks[k].local_names_iter
             IN  IF it = None
                 THEN sender_finally(
                          [w1 EXCEPT !.tasks[k].local_names_iter =
                                         Some(iter(names)),
                                     !.tasks[k].wakes = Append(@, "-")], k)
                 ELSE IF it[1].index < Len(it[1].list)
                 THEN LET name == it[1].list[it[1].index + 1]
                          w2 == [w1 EXCEPT !.tasks[k].local_names_iter =
                                               Some([it[1] EXCEPT !.index = @ + 1]),
                                           !.tasks[k].wakes = Append(@, name)]
                      IN  _send(w2, k, chat_id, Some(name), FALSE, FALSE)
                 ELSE \* StopIteration
                      sender_finally(
                          [w1 EXCEPT !.tasks[k].local_names_iter = None,
                                     !.tasks[k].wakes = Append(@, "-")], k)

\* sender_resume stepping the cursor back when _send raised, so that the name is
\* tried again.
sender_resume_rewinds(w, k) ==
    IF w.tasks[k].pc = "run" THEN sender_finally(w, k)
    ELSE IF w.tasks[k].pc = "raised"
    THEN LET it == w.tasks[k].local_names_iter[1]
         IN  sender_finally(
                 send_return([w EXCEPT !.tasks[k].raised = TRUE,
                                       !.tasks[k].failed = TRUE,
                                       !.tasks[k].local_names_iter =
                                           Some([it EXCEPT !.index = @ - 1])],
                             k, "raised"), k)
    ELSE w

\* sender once _send has returned ("run") or raised an Exception ("raised").
sender_resume(w, k) ==
    IF w.tasks[k].pc = "run" THEN sender_finally(w, k)
    ELSE IF w.tasks[k].pc = "raised"
    THEN sender_finally(send_return([w EXCEPT !.tasks[k].raised = TRUE,
                                              !.tasks[k].failed = TRUE],
                                    k, "raised"), k)
    ELSE w

\* callback_checker once the await inside _polling has returned or raised: the
\* rest of _polling, then _generate, under run_forever.
checker_resume(w, k) ==
    IF w.tasks[k].pc = "raised" THEN run_forever(w, k)
    ELSE run_forever(checker_generate(polling_resume(w, k), k), k)

\* The caller of _send continues once _send has returned or raised: sender, or
\* _generate as the last statement of callback_checker.
send_caller(w, k) ==
    IF w.tasks[k].kind = "sender" THEN sender_resume(w, k)
    ELSE run_forever(w, k)

\* CancelledError thrown into task k at the await it is suspended at.
throw_cancelled(w, k) ==
    LET t == w.tasks[k]
        w0 == [w EXCEPT !.tasks[k].must_cancel = FALSE]
    IN  IF t.kind = "sender" /\ t.pc \in {"parse", "send_photo", "send_message"}
        THEN \* inside the try: except CancelledError: raise; finally: sleep
             sender_finally(send_return([w0 EXCEPT !.tasks[k].reraise = TRUE],
                                        k, "raised"), k)
        ELSE \* a task not yet started, the sleep of the finally block (outside the
             \* try), or any await of callback_checker: the task ends
             send_return([w0 EXCEPT !.tasks[k].target = 0], k, "done")

\* ------------------------------------------------------------------ actions
Init ==
    /\ tasks = <<[Task("main", 0) EXCEPT !.pc = "run"]>>
    /\ _callback_task = 0
    /\ chat_to_job = <<>>
    /\ chat_to_setting = <<>>
    /\ POLLING_QUEUE = <<>>
    /\ GENERATE_QUEUE = <<>>
    /\ produced = 0

Ids == 1 .. Len(tasks)

\* SenderCongratulationsMessage.start
start ==
    /\ tasks[1].pc = "run"
    /\ Len(tasks) < MaxTasks
    /\ LET w == run_background_task(World, "checker", 0)
       IN  Install(w) /\ _callback_task' = Len(w.tasks)
    /\ UNCHANGED produced

\* SenderCongratulationsMessage.stop
stop ==
    /\ tasks[1].pc = "run"
    /\ LET task == _callback_task
       IN  /\ _callback_task' = 0
           /\ IF task # 0 THEN Install(cancel_and_stop_task(World, 1, task))
              ELSE Install(World)
    /\ UNCHANGED produced

\* The front end puts a command on POLLING_QUEUE.
PutPolling(job_info) ==
    /\ produced < MaxCommands
    /\ POLLING_QUEUE' = Append(POLLING_QUEUE, job_info)
    /\ produced' = produced + 1
    /\ UNCHANGED <<tasks, _callback_task, chat_to_job, chat_to_setting, GENERATE_QUEUE>>

\* The front end puts a command on GENERATE_QUEUE.
PutGenerate(get_info) ==
    /\ produced < MaxCommands
    /\ GENERATE_QUEUE' = Append(GENERATE_QUEUE, get_info)
    /\ produced' = produced + 1
    /\ UNCHANGED <<tasks, _callback_task, chat_to_job, chat_to_setting, POLLING_QUEUE>>

Runnable(k) == ~tasks[k].must_cancel

\* A callback_checker task starts, or its run_forever sleep ends: one cycle.
CheckerWake(k) ==
    /\ tasks[k].kind = "checker" /\ tasks[k].pc \in {"new", "sleep"} /\ Runnable(k)
    /\ Len(callback_checker(World, k).tasks) <= MaxTasks
    /\ Install(callback_checker(World, k))
    /\ UNCHANGED <<_callback_task, produced>>

\* SenderWake with the caught CancelledError dropped: the loop goes on.
SenderWake_swallowed(k) ==
    /\ tasks[k].kind = "sender" /\ tasks[k].pc \in {"new", "sleep"} /\ Runnable(k)
    /\ Len(tasks[k].wakes) < MaxWakes
    /\ Install(sender([World EXCEPT !.tasks[k].reraise = FALSE], k))
    /\ UNCHANGED <<_callback_task, produced>>

\* A sender task starts, or its sleep ends: the CancelledError it caught is
\* re-raised and ends it, or the next iteration runs.
SenderWake(k) ==
    /\ tasks[k].kind = "sender" /\ tasks[k].pc \in {"new", "sleep"} /\ Runnable(k)
    /\ IF tasks[k].reraise
       THEN Install([World EXCEPT !.tasks[k].pc = "done"])
       ELSE Len(tasks[k].wakes) < MaxWakes /\ Install(sender(World, k))
    /\ UNCHANGED <<_callback_task, produced>>

\* The task awaited in cancel_and_stop_task has ended: stop / _stop_task return.
Joined(k) ==
    /\ tasks[k].pc = "join" /\ Runnable(k)
    /\ ~Live(tasks[tasks[k].target])
    /\ IF tasks[k].kind = "main"
       THEN Install([World EXCEPT !.tasks[k].pc = "run", !.tasks[k].target = 0])
       ELSE Install(checker_resume(World, k))
    /\ UNCHANGED <<_callback_task, produced>>

\* bot.send_message of _names completes (ok) or raises.
Notified(k, ok) ==
    /\ tasks[k].pc = "notify" /\ Runnable(k)
    /\ IF ok
       THEN LET w == [World EXCEPT !.tasks[k].sends = Append(@,
                         [api |-> "send_message", chat_id |-> tasks[k].to,
                          via |-> "_names"])]
            IN  Install(checker_resume(w, k))
       ELSE Install(checker_resume([World EXCEPT !.tasks[k].pc = "raised"], k))
    /\ UNCHANGED <<_callback_task, produced>>

\* parse (the content provider) completes or raises.
Parsed(k, ok) ==
    /\ tasks[k].pc = "parse" /\ Runnable(k)
    /\ IF ok THEN Install(send_caller(send_after_parse(World, k), k))
       ELSE Install(send_caller([World EXCEPT !.tasks[k].pc = "raised"], k))
    /\ UNCHANGED <<_callback_task, produced>>

\* bot.send_photo completes or raises.
PhotoSent(k, ok) ==
    /\ tasks[k].pc = "send_photo" /\ Runnable(k)
    /\ IF ok THEN Install(send_caller(send_after_photo(World, k), k))
       ELSE Install(send_caller([World EXCEPT !.tasks[k].pc = "raised"], k))
    /\ UNCHANGED <<_callback_task, produced>>

\* bot.send_message of _send completes or raises.
MessageSent(k, ok) ==
    /\ tasks[k].pc = "send_message" /\ Runnable(k)
    /\ IF ok THEN Install(send_caller(send_after_message(World, k), k))
       ELSE Install(send_caller([World EXCEPT !.tasks[k].pc = "raised"], k))
    /\ UNCHANGED <<_callback_task, produced>>

\* A requested cancellation reaches the task.
Cancelled(k) ==
    /\ tasks[k].must_cancel /\ Live(tasks[k])
    /\ Install(throw_cancelled(World, k))
    /\ UNCHANGED <<_callback_task, produced>>

Next ==
    \/ start
    \/ stop
    \/ \E job_info \in PollingInfo : PutPolling(job_info)
    \/ \E get_info \in GenerateInfo : PutGenerate(get_info)
    \/ \E k \in Ids : CheckerWake(k)
    \/ \E k \in Ids : SenderWake(k)
    \/ \E k \in Ids : Joined(k)
    \/ \E k \in Ids, ok \in BOOLEAN : Notified(k, ok)
    \/ \E k \in Ids, ok \in BOOLEAN : Parsed(k, ok)
    \/ \E k \in Ids, ok \in BOOLEAN : PhotoSent(k, ok)
    \/ \E k \in Ids, ok \in BOOLEAN : MessageSent(k, ok)
    \/ \E k \in Ids : Cancelled(k)

Spec == Init /\ [][Next]_vars

\* The registries as lines 84-86 of _start_task are written to leave them (a
\* handle and a SenderJob per started tenant, the runner not yet run), for any
\* set of tenants: the state in which sender, _stop_task, _names and
\* _repeat_delay meet an active tenant.  Each started tenant accounts for one
\* command (its START) of the front end's budget.
InstalledNames == {<<>>, <<"A", "B">>}
InitInstalled ==
    /\ \E started \in SUBSET ChatID :
         \E order \in [1 .. Cardinality(started) -> started] :
         \E names \in [started -> InstalledNames] :
            /\ \A i, j \in DOMAIN order : order[i] = order[j] => i = j
            /\ tasks = <<[Task("main", 0) EXCEPT !.pc = "run"]>>
                         \o [i \in DOMAIN order |-> Task("sender", order[i])]
            /\ chat_to_job = [c \in started |->
                                 1 + CHOOSE i \in DOMAIN order : order[i] = c]
            /\ chat_to_setting = [c \in started |->
                                     SenderJob(time_parse(STANDARD_REPLAY_DELAY), names[c])]
    /\ _callback_task = 0
    /\ POLLING_QUEUE = <<>>
    /\ GENERATE_QUEUE = <<>>
    /\ produced = Cardinality(DOMAIN chat_to_job)

SpecInstalled == InitInstalled /\ [][Next]_vars

\* Both tenants started (lines 84-86 of _start_task run for tenant 1, then for
\* tenant 2) and both given the names ["A","B"], with one command of the front
\* end's budget left: the state in which a command for one tenant meets another
\* active tenant.
InitTwoTenants ==
    /\ tasks = <<[Task("main", 0) EXCEPT !.pc = "run"],
                 Task("sender", 1), Task("sender", 2)>>
    /\ chat_to_job = [c \in ChatID |-> c + 1]
    /\ chat_to_setting = [c \in ChatID |->
                             SenderJob(time_parse(STANDARD_REPLAY_DELAY), <<"A", "B">>)]
    /\ _callback_task = 0
    /\ POLLING_QUEUE = <<>>
    /\ GENERATE_QUEUE = <<>>
    /\ produced = MaxCommands - 1

SpecTwoTenants == InitTwoTenants /\ [][Next]_vars

\* ------------------------------------------------------------------ claims
Checkers == {k \in Ids : tasks[k].kind = "checker"}
Senders == {k \in Ids : tasks[k].kind = "sender"}

\* No callback_checker is part-way through a command.
Quiescent == \A k \in Checkers : tasks[k].pc \in {"new", "sleep", "done"}

\* The command at the head of POLLING_QUEUE is `command` for tenant c.
HeadIs(command, c) ==
    /\ POLLING_QUEUE # <<>>
    /\ Head(POLLING_QUEUE).command = command
    /\ Head(POLLING_QUEUE).chat_id = c

\* The live runner tasks of tenant c.
LiveSenders(c) == {j \in Senders : tasks[j].chat_id = c /\ Live(tasks[j])}

\* C1: whenever no command is part-way through its processing, a tenant has an
\* entry in chat_to_job if and only if it has an entry in chat_to_setting.
C1_PairedRegistries ==
    Quiescent => DOMAIN chat_to_job = DOMAIN chat_to_setting

\* C2: processing START for a tenant in neither registry spawns a runner for that
\* tenant, stores its handle, and leaves a settings entry with an empty name list
\* for that tenant.
C2_StartRegisters ==
    [][\A k \in Ids : \A c \in ChatID :
          ( /\ HeadIs("START", c)
            /\ c \notin DOMAIN chat_to_job
            /\ c \notin DOMAIN chat_to_setting
            /\ CheckerWake(k) )
          => /\ Len(tasks') = Len(tasks) + 1
             /\ tasks'[Len(tasks')].kind = "sender"
             /\ tasks'[Len(tasks')].chat_id = c
             /\ c \in DOMAIN chat_to_job'
             /\ chat_to_job'[c] = Len(tasks')
             /\ c \in DOMAIN chat_to_setting'
             /\ chat_to_setting'[c].names = <<>>
      ]_vars

\* C3: at most one runner task of a tenant is live at any time, and processing
\* START for a tenant that has an entry in either registry spawns no task and
\* changes no registry entry.
C3_StartIdempotent ==
    /\ [](\A c \in ChatID : Cardinality(LiveSenders(c)) <= 1)
    /\ [][\A k \in Ids : \A c \in ChatID :
            ( /\ HeadIs("START", c)
              /\ (c \in DOMAIN chat_to_job \/ c \in DOMAIN chat_to_setting)
              /\ CheckerWake(k) )
            => /\ Len(tasks') = Len(tasks)
               /\ UNCHANGED <<chat_to_job, chat_to_setting>>
        ]_vars

\* A START has been processed for a tenant already registered: _start_task
\* returned (a START for an unregistered tenant ends in the logged exception).
C3_Witness ==
    \E k \in Checkers :
        /\ tasks[k].job_info # None
        /\ tasks[k].job_info[1].command = "START"
        /\ tasks[k].job_info[1].chat_id \in DOMAIN chat_to_job
        /\ tasks[k].pc = "sleep"
        /\ ~tasks[k].raised

\* C4: when the processing of STOP for a tenant that holds a job handle returns
\* (at once, or once the await of cancel_and_stop_task has ended), every runner
\* task of that tenant has terminated; and a terminated task never acts again, so
\* no dispatch for the tenant follows until a START spawns a new runner.
C4_StopTerminates ==
    [][/\ \A k \in Ids : \A c \in ChatID :
            ( \/ /\ HeadIs("STOP", c)
                 /\ c \in DOMAIN chat_to_job
                 /\ CheckerWake(k)
                 /\ tasks'[k].pc # "join"
              \/ /\ tasks[k].kind = "checker"
                 /\ tasks[k].pc = "join"
                 /\ tasks[k].job_info[1].chat_id = c
                 /\ Joined(k) )
            => \A j \in Senders : tasks[j].chat_id = c => ~Live(tasks'[j])
       /\ \A j \in Ids : ~Live(tasks[j]) => tasks'[j] = tasks[j]
      ]_vars

\* C5: processing STOP for a tenant with no job handle changes nothing; processing
\* STOP for a tenant that holds one (a START was processed for it and no STOP
\* since) leaves the tenant absent from chat_to_job and from chat_to_setting.
C5_StopRemoves ==
    [][\A k \in Ids : \A c \in ChatID :
          (HeadIs("STOP", c) /\ CheckerWake(k))
          => IF c \notin DOMAIN chat_to_job
             THEN /\ UNCHANGED <<chat_to_job, chat_to_setting>>
                  /\ Len(tasks') = Len(tasks)
             ELSE /\ c \notin DOMAIN chat_to_job'
                  /\ c \notin DOMAIN chat_to_setting'
      ]_vars

Inactive(c) == c \notin DOMAIN chat_to_job \/ c \notin DOMAIN chat_to_setting

\* C6 as stated: processing SETTINGS for a tenant with no active job changes no
\* registry entry, spawns no task and makes no bot call to the tenant, whatever
\* the names payload and the delay payload.
C6_ConfigureInactiveSilent ==
    [][\A k \in Ids : \A c \in ChatID :
          (HeadIs("SETTINGS", c) /\ Inactive(c) /\ CheckerWake(k))
          => /\ UNCHANGED <<chat_to_job, chat_to_setting>>
             /\ Len(tasks') = Len(tasks)
             /\ tasks'[k].pc # "notify"
      ]_vars

\* C6 amended: processing SETTINGS for a tenant with no active job changes no
\* registry entry and spawns no task, whatever the payloads; it makes no bot call
\* to the tenant when the names payload is a JSON array, and it sends the
\* parse-error notification to the tenant when the names payload is malformed
\* JSON or valid JSON that is not an array.
C6_ConfigureInactive ==
    [][\A k \in Ids : \A c \in ChatID :
          /\ (HeadIs("SETTINGS", c) /\ Inactive(c) /\ CheckerWake(k))
             => /\ UNCHANGED <<chat_to_job, chat_to_setting>>
                /\ Len(tasks') = Len(tasks)
                /\ IF Head(POLLING_QUEUE).names \in {"not-json", "{}"}
                   THEN tasks'[k].pc = "notify" /\ tasks'[k].to = c
                   ELSE tasks'[k].pc # "notify"
          /\ ( /\ tasks[k].pc = "notify"
               /\ tasks[k].to = c
               /\ Inactive(c)
               /\ (Notified(k, TRUE) \/ Notified(k, FALSE)) )
             => /\ UNCHANGED <<chat_to_job, chat_to_setting>>
                /\ Len(tasks') = Len(tasks)
      ]_vars

\* A SETTINGS command with a JSON array has been processed while no tenant was
\* ever started: the registries are empty and the cycle made no bot call.
C6_Witness ==
    /\ Senders = {}
    /\ \E k \in Checkers :
          /\ tasks[k].job_info # None
          /\ tasks[k].job_info[1].command = "SETTINGS"
          /\ tasks[k].job_info[1].names = "[\"C\"]"
          /\ tasks[k].pc = "sleep"
          /\ tasks[k].sends = <<>>
          /\ chat_to_job = <<>> /\ chat_to_setting = <<>>

\* Runner j is the registered runner of a tenant whose names are ["A","B"] (no
\* names payload of the model yields that list, so they have been ["A","B"] since
\* the runner was spawned) and none of its dispatches has raised.
RunsAB(j) ==
    /\ tasks[j].kind = "sender"
    /\ ~tasks[j].failed
    /\ tasks[j].chat_id \in DOMAIN chat_to_job
    /\ chat_to_job[tasks[j].chat_id] = j
    /\ tasks[j].chat_id \in DOMAIN chat_to_setting
    /\ chat_to_setting[tasks[j].chat_id].names = <<"A", "B">>

\* The wakes of runner j so far: a first wake without a dispatch, then `pass`,
\* repeated.
Cyclic(j, pass) ==
    \A i \in 1 .. Len(tasks[j].wakes) :
        tasks[j].wakes[i] = IF i = 1 THEN "-" ELSE pass[((i - 2) % Len(pass)) + 1]

SameNames ==
    /\ DOMAIN chat_to_setting' = DOMAIN chat_to_setting
    /\ \A c \in DOMAIN chat_to_setting :
          chat_to_setting'[c].names = chat_to_setting[c].names

\* C8: _names with malformed JSON or with valid JSON that is not an array leaves
\* the names of every tenant as they were and sends the tenant the error
\* notification (bot.send_message to that tenant), the same way for both.
C8_BadNamesRejected ==
    [][\A k \in Ids : \A c \in ChatID :
          /\ ( /\ HeadIs("SETTINGS", c)
               /\ Head(POLLING_QUEUE).names \in {"not-json", "{}"}
               /\ CheckerWake(k) )
             => /\ UNCHANGED chat_to_setting
                /\ tasks'[k].pc = "notify"
                /\ tasks'[k].to = c
          /\ (tasks[k].pc = "notify" /\ tasks[k].to = c /\ Notified(k, TRUE))
             => /\ SameNames
                /\ tasks'[k].sends =
                       Append(tasks[k].sends,
                              [api |-> "send_message", chat_id |-> c, via |-> "_names"])
          /\ (tasks[k].pc = "notify" /\ Notified(k, FALSE))
             => UNCHANGED chat_to_setting
      ]_vars

\* A non-array payload has been processed for an active tenant: the notification
\* went out and the tenant's names are still ["A","B"].
C8_Witness ==
    \E k \in Checkers :
        /\ tasks[k].job_info # None
        /\ tasks[k].job_info[1].command = "SETTINGS"
        /\ tasks[k].job_info[1].names = "{}"
        /\ tasks[k].pc = "sleep"
        /\ LET c == tasks[k].job_info[1].chat_id IN
              /\ ~Inactive(c)
              /\ chat_to_setting[c].names = <<"A", "B">>
              /\ tasks[k].sends =
                     <<[api |-> "send_message", chat_id |-> c, via |-> "_names"]>>

\* The bot calls that the _send of this cycle's generation command completed.
GenerateCalls(k) ==
    LET ViaSend(e) == e.via = "_send"
        s == SelectSeq(tasks[k].sends, ViaSend)
    IN  [i \in DOMAIN s |-> [api |-> s[i].api, chat_id |-> s[i].chat_id]]

\* C9: a generation command of kind PICTURE never leads to send_message and,
\* when nothing raises, leads to exactly one send_photo; kind TEXT never leads
\* to send_photo and leads to exactly one send_message; any other kind leads to
\* send_photo and then send_message; every call is addressed to the command's
\* tenant.
C9_GenerateKinds ==
    \A k \in Checkers : tasks[k].get_info # None =>
        LET get_info == tasks[k].get_info[1]
            calls == GenerateCalls(k)
            photo == [api |-> "send_photo", chat_id |-> get_info.chat_id]
            message == [api |-> "send_message", chat_id |-> get_info.chat_id]
            done == tasks[k].pc = "sleep" /\ ~tasks[k].raised
        IN  CASE get_info.command = "PICTURE" ->
                   IF done THEN calls = <<photo>> ELSE calls \in {<<>>, <<photo>>}
              [] get_info.command = "TEXT" ->
                   IF done THEN calls = <<message>> ELSE calls \in {<<>>, <<message>>}
              [] OTHER ->
                   IF done THEN calls = <<photo, message>>
                   ELSE calls \in {<<>>, <<photo>>, <<photo, message>>}

\* A PICTURE command has been processed to its end.
C9_Witness ==
    \E k \in Checkers :
        /\ tasks[k].get_info # None
        /\ tasks[k].get_info[1].command = "PICTURE"
        /\ tasks[k].pc = "sleep"
        /\ ~tasks[k].raised
        /\ Len(GenerateCalls(k)) = 1

\* C10: once stop() has returned and until start() is called again, no
\* callback_checker task is running.
C10_StopEndsEveryLoop ==
    (tasks[1].pc = "run" /\ _callback_task = 0)
    => \A k \in Checkers : ~Live(tasks[k])

\* Runner j is the registered runner of tenant c, which has settings, and is not
\* unwinding from a cancellation.
RunnerOf(j, c) ==
    /\ tasks[j].kind = "sender"
    /\ tasks[j].chat_id = c
    /\ ~tasks[j].reraise
    /\ c \in DOMAIN chat_to_setting

DelayOf(raw) == time_parse(IF raw = "" THEN STANDARD_REPLAY_DELAY ELSE raw)
ValidDelay(raw) == DelayOf(raw) # None

Generates(k) ==
    IF GENERATE_QUEUE = <<>>
    THEN /\ UNCHANGED GENERATE_QUEUE
         /\ tasks'[k].get_info = None
         /\ tasks'[k].pc = "sleep"
    ELSE /\ GENERATE_QUEUE' = Tail(GENERATE_QUEUE)
         /\ tasks'[k].get_info = Some(Head(GENERATE_QUEUE))
         /\ tasks'[k].pc = "parse"

\* The step ends cycle k in run_forever's handler without running _generate.
SkipsGenerate(k) ==
    /\ UNCHANGED GENERATE_QUEUE
    /\ tasks'[k].get_info = None
    /\ tasks'[k].raised
    /\ tasks'[k].pc = "sleep"

\* _polling takes the head of POLLING_QUEUE, if there is one.
Polls(k) ==
    IF POLLING_QUEUE = <<>>
    THEN UNCHANGED POLLING_QUEUE /\ tasks'[k].job_info = None
    ELSE /\ POLLING_QUEUE' = Tail(POLLING_QUEUE)
         /\ tasks'[k].job_info = Some(Head(POLLING_QUEUE))

\* The command at the head of POLLING_QUEUE makes _polling raise at once: a START
\* for a tenant in neither registry (the NameError of _start_task).
StartRaises ==
    \E c \in ChatID :
        HeadIs("START", c) /\ c \notin DOMAIN chat_to_job /\ c \notin DOMAIN chat_to_setting

PutOrGet(q, r) ==
    \/ Len(r) = Len(q) + 1 /\ SubSeq(r, 1, Len(q)) = q
    \/ q # <<>> /\ r = Tail(q)

\* C14: the queues change only by a put at the tail or a get of the head (FIFO).
\* A command leaves POLLING_QUEUE only in the step that begins a cycle of
\* callback_checker, as the command that cycle processes, and a cycle that has
\* begun keeps its command: at most one polling command per cycle.  A command
\* leaves GENERATE_QUEUE only in the step in which a cycle passes from _polling
\* into _send, as the command that cycle sends, which happens at most once in a
\* cycle.  So every command is processed by exactly one cycle, in queue order.
C14_OnePerCycleFIFO ==
    [][/\ POLLING_QUEUE' # POLLING_QUEUE => PutOrGet(POLLING_QUEUE, POLLING_QUEUE')
       /\ GENERATE_QUEUE' # GENERATE_QUEUE => PutOrGet(GENERATE_QUEUE, GENERATE_QUEUE')
       /\ Len(POLLING_QUEUE') < Len(POLLING_QUEUE)
          => \E k \in Ids :
                /\ tasks[k].kind = "checker"
                /\ tasks[k].pc \in {"new", "sleep"}
                /\ tasks'[k].job_info = Some(Head(POLLING_QUEUE))
       /\ Len(GENERATE_QUEUE') < Len(GENERATE_QUEUE)
          => \E k \in Ids :
                /\ tasks[k].kind = "checker"
                /\ tasks[k].pc \in {"new", "sleep", "join", "notify"}
                /\ tasks'[k].pc = "parse"
                /\ tasks'[k].get_info = Some(Head(GENERATE_QUEUE))
       /\ \A k \in Ids : tasks[k].kind = "checker" =>
             /\ (tasks[k].pc \in {"new", "sleep"} /\ CheckerWake(k))
                => Polls(k)
             /\ tasks[k].pc \notin {"new", "sleep"}
                => tasks'[k].job_info = tasks[k].job_info
             /\ (tasks[k].pc \in {"new", "sleep", "join", "notify"}
                 /\ tasks'[k].pc = "parse")
                => /\ GENERATE_QUEUE # <<>>
                   /\ GENERATE_QUEUE' = Tail(GENERATE_QUEUE)
                   /\ tasks'[k].get_info = Some(Head(GENERATE_QUEUE))
             /\ tasks[k].pc \in {"parse", "send_photo", "send_message"}
                => /\ tasks'[k].get_info = tasks[k].get_info
                   /\ tasks[k].pc # "parse" => tasks'[k].pc # "parse"
      ]_vars

\* A cycle has taken one polling command and ended while the other polling
\* command of the run is still queued.
C14_Witness ==
    \E k \in Checkers :
        /\ tasks[k].pc = "sleep"
        /\ tasks[k].job_info # None
        /\ Len(POLLING_QUEUE) = 1
        /\ produced = MaxCommands

\* Task j is a runner suspended inside _send, no cancellation pending.
InDispatch(j) ==
    /\ tasks[j].kind = "sender"
    /\ tasks[j].pc \in {"parse", "send_photo", "send_message"}
    /\ Runnable(j)

\* The await of _send that task j is suspended at raises.
DispatchFails(j) ==
    Parsed(j, FALSE) \/ PhotoSent(j, FALSE) \/ MessageSent(j, FALSE)

EndsCycle(j) ==
    \/ /\ tasks[j].kind = "sender"
       /\ tasks[j].pc \in {"new", "sleep"}
       /\ ~tasks[j].reraise
       /\ SenderWake(j)
       /\ tasks'[j].pc # "parse"
    \/ /\ InDispatch(j)
       /\ \/ DispatchFails(j)
          \/ Parsed(j, TRUE) \/ PhotoSent(j, TRUE) \/ MessageSent(j, TRUE)
       /\ tasks'[j].pc \notin {"send_photo", "send_message"}

OthersUnchanged(c) ==
    \A d \in ChatID \ {c} :
        /\ d \in DOMAIN chat_to_job' <=> d \in DOMAIN chat_to_job
        /\ d \in DOMAIN chat_to_job => chat_to_job'[d] = chat_to_job[d]
        /\ d \in DOMAIN chat_to_setting' <=> d \in DOMAIN chat_to_setting
        /\ d \in DOMAIN chat_to_setting => chat_to_setting'[d] = chat_to_setting[d]
        /\ \A j \in Ids :
              (tasks[j].kind = "sender" /\ tasks[j].chat_id = d) => tasks'[j] = tasks[j]

\* The world with the settings of tenant d removed, or replaced by other ones.
WithoutSettings(d) ==
    [World EXCEPT !.chat_to_setting = [x \in DOMAIN @ \ {d} |-> @[x]]]
WithOtherSettings(d) ==
    [World EXCEPT !.chat_to_setting = DictSet(@, d, SenderJob(None, <<"C">>))]

C20_NoRetry ==
    /\ [](\A j \in Senders :
             \A i \in 1 .. Len(tasks[j].wakes) - 1 :
                 tasks[j].wakes[i] # "-" => tasks[j].wakes[i + 1] # tasks[j].wakes[i])
    /\ [][\A j \in Ids : tasks[j].kind = "sender" =>
            /\ (InDispatch(j) /\ DispatchFails(j))
               => /\ tasks'[j].failed
                  /\ tasks'[j].pc \in {"sleep", "done"}
                  /\ tasks'[j].wakes = tasks[j].wakes
                  /\ tasks'[j].local_names_iter = tasks[j].local_names_iter
                  /\ LET it == tasks[j].local_names_iter[1]
                     IN  it.index >= 1 /\ it.list[it.index] = tasks[j].name
            /\ (tasks[j].pc \in {"new", "sleep"} /\ ~tasks[j].reraise /\ SenderWake(j))
               => /\ Len(tasks'[j].wakes) = Len(tasks[j].wakes) + 1
                  /\ tasks'[j].pc = "parse"
                     => LET it == tasks[j].local_names_iter[1]
                        IN  /\ tasks'[j].name = it.list[it.index + 1]
                            /\ tasks'[j].wakes[Len(tasks'[j].wakes)] = tasks'[j].name
                            /\ tasks'[j].local_names_iter[1].index = it.index + 1
            /\ tasks[j].pc \in {"parse", "send_photo", "send_message"}
               => /\ tasks'[j].wakes = tasks[j].wakes
                  /\ tasks'[j].local_names_iter = tasks[j].local_names_iter
                  /\ tasks[j].pc # "parse" => tasks'[j].pc # "parse"
        ]_vars

\* A runner whose dispatch of "A" raised is now dispatching "B".
C20_Witness ==
    \E j \in Senders :
        /\ tasks[j].failed
        /\ tasks[j].wakes = <<"-", "A", "B">>
        /\ tasks[j].pc = "parse"
        /\ tasks[j].name = "B"

====
